---- MODULE Spec2Model ----
(***************************************************************************)
(* Model of devopstemplate.template.DevOpsTemplate: the template           *)
(* installation engine (component catalog, conflict check, path/content    *)
(* rendering, create / manage / cookiecutter operations).                  *)
(*                                                                         *)
(* A filesystem is a pair (fs, dirs): fs maps the path of every regular    *)
(* file to its content, dirs is the set of existing directories.  A path   *)
(* is a sequence of components; an absolute path starts with "/".          *)
(* Every operation is one atomic action (the program is single-threaded    *)
(* and synchronous); it is computed by operators that thread a run state   *)
(* rs = [fs, dirs, pd, log, err] through the statements of the method.     *)
(* A raised exception is rs.err # "none": the remaining statements of the  *)
(* method are then not executed.                                           *)
(***************************************************************************)
EXTENDS Naturals, Sequences, FiniteSets, TLC

VARIABLES
    session,    \* the DevOpsTemplate object: projectdir and the three flags
    fs,         \* regular files: path -> content
    dirs,       \* existing directories
    last,       \* the last call: operation, arguments, state before, outcome
    nops,       \* number of operations called so far
    nsessions   \* number of DevOpsTemplate objects constructed so far

vars == <<session, fs, dirs, last, nops, nsessions>>

\* Bounds of the model.
MaxOps == 2
MaxSessions == 2

---------------------------------------------------------------------------
(* Paths *)

FsRoot == <<"/">>
\* The projectdirectory argument of the constructor (tests pass an absolute
\* temporary directory).
ProjectDir == <<"/", "prj">>

\* os.path.join(a, b): an absolute b discards a.
Join(a, b) == IF b # <<>> /\ b[1] = "/" THEN b ELSE a \o b

\* os.path.dirname
Dirname(p) == SubSeq(p, 1, Len(p) - 1)

Prefixes(p) == {SubSeq(p, 1, k) : k \in 1..Len(p)}

\* os.makedirs(p): creates p and every missing ancestor.
Makedirs(d, p) == d \cup Prefixes(p)

\* os.path.exists(p): true for regular files and for directories.
Exists(rs, p) == p \in DOMAIN rs.fs \/ p \in rs.dirs

\* open(p, 'w') followed by a complete write of content c.
WriteFile(f, p, c) == [q \in DOMAIN f \cup {p} |-> IF q = p THEN c ELSE f[q]]

---------------------------------------------------------------------------
(* Catalog and templates *)

\* template.json: component name -> ordered list of path templates.
Catalog ==
    [src        |-> <<"{{project_slug}}/__init__.py">>,
     tests      |-> <<"tests/__init__.py">>,
     make       |-> <<"Makefile">>,
     setuptools |-> <<"setup.py", "MANIFEST.in">>,
     git        |-> <<".gitignore">>,
     readme     |-> <<"README.md">>,
     docker     |-> <<"Dockerfile">>,
     sonar      |-> <<"sonar-project.properties">>]

Components == DOMAIN Catalog

Range(f) == {f[x] : x \in DOMAIN f}

\* The files of the package's template directory: one per catalog entry.
BundledTemplates == UNION {Range(Catalog[c]) : c \in Components}

\* pkg.exists(os.path.join('template', pkg_fname))
PkgExists(pkg_fname) == pkg_fname \in BundledTemplates

Lit(s) == [var |-> FALSE, s |-> s]
Var(v) == [var |-> TRUE, s |-> v]

\* jinja2.Template(template_fpath): the path template parsed into its
\* "/"-separated components, each a literal or a variable placeholder.
ParseTemplate(t) ==
    CASE t = "{{project_slug}}/__init__.py" -> <<Var("project_slug"), Lit("__init__.py")>>
      [] t = "tests/__init__.py" -> <<Lit("tests"), Lit("__init__.py")>>
      [] OTHER -> <<Lit(t)>>

\* Jinja2's default Undefined: a name that is absent from the context
\* renders as the empty string.
Lookup(ctx, v) == IF v \in DOMAIN ctx THEN ctx[v] ELSE ""

\* A rendered string split at "/": a leading empty component is the leading
\* "/" of an absolute path.
StrToPath(cs) == IF Len(cs) > 1 /\ cs[1] = "" THEN FsRoot \o Tail(cs) ELSE cs

\* The path template used as the path, without rendering it.
RenderPathVerbatim(t, ctx) == <<t>>

\* Template(template_fpath).render(**context)
RenderPath(t, ctx) ==
    LET P == ParseTemplate(t)
    IN  StrToPath([i \in 1..Len(P) |-> IF P[i].var THEN Lookup(ctx, P[i].s) ELSE P[i].s])

\* Markup escaping applied by the environment (autoescape default=True).
Escape(v) == IF v = "R&D" THEN "R&amp;D" ELSE v

\* The complete output of template.stream(**context) for template t.
Rendered(t, ctx) ==
    [kind  |-> "full",
     tpl   |-> t,
     name  |-> Escape(Lookup(ctx, "project_name")),
     slug  |-> Escape(Lookup(ctx, "project_slug")),
     sonar |-> "template"]

\* The target after open(..., 'w') truncated it and the stream failed before
\* its end: a proper prefix of the rendered output.
Partial(t, ctx) == [Rendered(t, ctx) EXCEPT !.kind = "partial"]

---------------------------------------------------------------------------
(* Faults: a content template whose rendering raises *)

NoFault == [kind |-> "none", tpl |-> ""]
\* "load": get_template raises; "stream": stream(...).dump raises.
Faults == {NoFault} \cup [kind : {"load", "stream"}, tpl : {"setup.py"}]

---------------------------------------------------------------------------
(* Run state *)

NoErr == "none"

StartRun(f, d, pd) == [fs |-> f, dirs |-> d, pd |-> pd, log |-> <<>>, err |-> NoErr]

Entry(p, t, ex, dec, out) ==
    [path |-> p, tpl |-> t, existed |-> ex, decision |-> dec, outcome |-> out]

Logged(rs, e) == [rs EXCEPT !.log = Append(@, e)]

Raised(rs, e) == [rs EXCEPT !.err = e]

---------------------------------------------------------------------------
(* DevOpsTemplate.__check_project_file *)

\* The two tests in the other order: overwrite is looked at before skip.
CheckSwapped(exists, s) ==
    IF exists /\ ~s.overwrite THEN "Fail"
    ELSE IF exists /\ s.skip THEN "Skip"
    ELSE "Proceed"

\* The second test left out: an existing target is never a conflict.
CheckNoFail(exists, s) ==
    IF exists /\ s.skip THEN "Skip"
    ELSE "Proceed"

\* The first test left out: the skip flag is ignored.
CheckNoSkip(exists, s) ==
    IF exists /\ ~s.overwrite THEN "Fail"
    ELSE "Proceed"

CheckProjectFile(exists, s) ==
    IF exists /\ s.skip THEN "Skip"
    ELSE IF exists /\ ~s.overwrite THEN "Fail"
    ELSE "Proceed"

(* DevOpsTemplate.__mkdir *)

\* __mkdir without the test of dry_run.
MkdirAlways(rs, s, dname) ==
    LET dp == Join(rs.pd, dname)
    IN  IF ~Exists(rs, dp)
        THEN [rs EXCEPT !.dirs = Makedirs(@, dp)]
        ELSE rs

Mkdir(rs, s, dname) ==
    LET dp == Join(rs.pd, dname)
    IN  IF ~Exists(rs, dp) /\ ~s.dry_run
        THEN [rs EXCEPT !.dirs = Makedirs(@, dp)]
        ELSE rs

---------------------------------------------------------------------------
(* DevOpsTemplate.__render *)

\* get_template, open(project_fpath, 'w') and stream(...).dump, with the write
\* leaving the old content in place.
WriteContentKeep(rs, t, p, ctx, fault) ==
    IF fault.tpl = t /\ fault.kind = "load"
    THEN Raised(rs, "RenderError")
    ELSE IF fault.tpl = t /\ fault.kind = "stream"
    THEN Raised([rs EXCEPT !.fs = WriteFile(@, p, Partial(t, ctx))], "RenderError")
    ELSE IF p \in DOMAIN rs.fs THEN rs
    ELSE [rs EXCEPT !.fs = WriteFile(@, p, Rendered(t, ctx))]

\* Lines 268-270: get_template(pkg_fname), then open(project_fpath, 'w')
\* (which creates or truncates the target), then stream(**context).dump.
WriteContent(rs, t, p, ctx, fault) ==
    IF fault.tpl = t /\ fault.kind = "load"
    THEN Raised(rs, "RenderError")
    ELSE IF fault.tpl = t /\ fault.kind = "stream"
    THEN Raised([rs EXCEPT !.fs = WriteFile(@, p, Partial(t, ctx))], "RenderError")
    ELSE [rs EXCEPT !.fs = WriteFile(@, p, Rendered(t, ctx))]

\* Lines 259-263: create the missing parent directories of the target.
MakeParents(rs, p) ==
    IF ~Exists(rs, Dirname(p))
    THEN [rs EXCEPT !.dirs = Makedirs(@, Dirname(p))]
    ELSE rs

\* __render with the target opened for writing before the conflict check.
RenderWriteBeforeCheck(rs, s, pkg_fname, project_fname, ctx, fault) ==
    IF ~PkgExists(pkg_fname)
    THEN Raised(rs, "FileNotFoundError")
    ELSE
      LET p  == Join(rs.pd, project_fname)
          ex == Exists(rs, p)
          d  == CheckProjectFile(ex, s)
          w  == IF s.dry_run THEN rs
                ELSE WriteContent(MakeParents(rs, p), pkg_fname, p, ctx, fault)
      IN  IF d = "Skip"
          THEN Logged(rs, Entry(p, pkg_fname, ex, d, "Skipped"))
          ELSE IF d = "Fail"
          THEN Raised(Logged(w, Entry(p, pkg_fname, ex, d, "TargetExists")),
                      "FileExistsError")
          ELSE IF w.err # NoErr
          THEN Logged(w, Entry(p, pkg_fname, ex, d, "RenderError"))
          ELSE Logged(w, Entry(p, pkg_fname, ex, d, "Written"))

\* __render with the test of the template made after the conflict check.
RenderCheckTargetFirst(rs, s, pkg_fname, project_fname, ctx, fault) ==
    LET p  == Join(rs.pd, project_fname)
        ex == Exists(rs, p)
        d  == CheckProjectFile(ex, s)
    IN  IF d = "Skip"
        THEN Logged(rs, Entry(p, pkg_fname, ex, d, "Skipped"))
        ELSE IF d = "Fail"
        THEN Raised(Logged(rs, Entry(p, pkg_fname, ex, d, "TargetExists")),
                    "FileExistsError")
        ELSE IF s.dry_run
        THEN Logged(rs, Entry(p, pkg_fname, ex, d, "Written"))
        ELSE IF ~PkgExists(pkg_fname)
        THEN Raised(MakeParents(rs, p), "FileNotFoundError")
        ELSE
          LET w == WriteContent(MakeParents(rs, p), pkg_fname, p, ctx, fault)
          IN  IF w.err # NoErr
              THEN Logged(w, Entry(p, pkg_fname, ex, d, "RenderError"))
              ELSE Logged(w, Entry(p, pkg_fname, ex, d, "Written"))

\* Lines 249-252 raise FileNotFoundError for a template the package does not
\* hold, before the conflict check of lines 253-258.
Render(rs, s, pkg_fname, project_fname, ctx, fault) ==
    IF ~PkgExists(pkg_fname)
    THEN Raised(rs, "FileNotFoundError")
    ELSE
      LET p  == Join(rs.pd, project_fname)
          ex == Exists(rs, p)
          d  == CheckProjectFile(ex, s)
      IN  IF d = "Skip"
          THEN Logged(rs, Entry(p, pkg_fname, ex, d, "Skipped"))
          ELSE IF d = "Fail"
          THEN Raised(Logged(rs, Entry(p, pkg_fname, ex, d, "TargetExists")),
                      "FileExistsError")
          ELSE IF s.dry_run
          THEN Logged(rs, Entry(p, pkg_fname, ex, d, "Written"))
          ELSE
            LET w == WriteContent(MakeParents(rs, p), pkg_fname, p, ctx, fault)
            IN  IF w.err # NoErr
                THEN Logged(w, Entry(p, pkg_fname, ex, d, "RenderError"))
                ELSE Logged(w, Entry(p, pkg_fname, ex, d, "Written"))

---------------------------------------------------------------------------
(* DevOpsTemplate.__install *)

RECURSIVE InstallNoAbort(_, _, _, _, _, _)
\* The loop of __install with an error of one file not ending the loop.
InstallNoAbort(rs, s, file_list, i, ctx, fault) ==
    IF i > Len(file_list) THEN rs
    ELSE
      LET r1 == Render([rs EXCEPT !.err = NoErr], s, file_list[i],
                       RenderPath(file_list[i], ctx), ctx, fault)
          r2 == InstallNoAbort(r1, s, file_list, i + 1, ctx, fault)
      IN  IF rs.err # NoErr THEN Raised(r2, rs.err)
          ELSE IF r1.err # NoErr THEN Raised(r2, r1.err)
          ELSE r2

RECURSIVE InstallStopAtSkip(_, _, _, _, _, _)
\* The loop of __install with a skipped target ending the loop, as if
\* SkipFileError were caught around the loop and not inside __render.
InstallStopAtSkip(rs, s, file_list, i, ctx, fault) ==
    IF \/ i > Len(file_list)
       \/ rs.err # NoErr
       \/ (i > 1 /\ rs.log[Len(rs.log)].outcome = "Skipped")
    THEN rs
    ELSE InstallStopAtSkip(Render(rs, s, file_list[i], RenderPath(file_list[i], ctx), ctx, fault),
                           s, file_list, i + 1, ctx, fault)

RECURSIVE InstallFrom(_, _, _, _, _, _)
\* Lines 214-217: the loop over the component's path templates, from the
\* i-th on; an exception raised by __render ends it.
InstallFrom(rs, s, file_list, i, ctx, fault) ==
    IF i > Len(file_list) \/ rs.err # NoErr THEN rs
    ELSE InstallFrom(Render(rs, s, file_list[i], RenderPath(file_list[i], ctx), ctx, fault),
                     s, file_list, i + 1, ctx, fault)

\* __install with the file list read by dict.get(component, []): a name that
\* is no key of the catalog installs nothing and raises nothing.
InstallUnknownEmpty(rs, s, template_component, ctx, fault) ==
    IF rs.err # NoErr THEN rs
    ELSE IF template_component \notin DOMAIN Catalog
    THEN rs
    ELSE InstallFrom(rs, s, Catalog[template_component], 1, ctx, fault)

\* Line 213: self.__template_dict[template_component] raises KeyError for
\* a name that is no key of the catalog, before the loop starts.
Install(rs, s, template_component, ctx, fault) ==
    IF rs.err # NoErr THEN rs
    ELSE IF template_component \notin DOMAIN Catalog
    THEN Raised(rs, "KeyError")
    ELSE InstallFrom(rs, s, Catalog[template_component], 1, ctx, fault)

RECURSIVE InstallAll(_, _, _, _, _, _)
\* Consecutive self.__install(comp, context) statements, in program order.
InstallAll(rs, s, comps, i, ctx, fault) ==
    IF i > Len(comps) THEN rs
    ELSE InstallAll(Install(rs, s, comps[i], ctx, fault), s, comps, i + 1, ctx, fault)

---------------------------------------------------------------------------
(* DevOpsTemplate.__configure_makefile *)

\* MakefileTemplate(fh) followed by mktemplate.write(fh, var_value_dict): the
\* Makefile with the assignment of DOCKERSONAR replaced by the given value.
MakefileRewrite(content, value) == [content EXCEPT !.sonar = value]

\* __configure_makefile writing a fresh Makefile in place of patching the
\* installed one.
ConfigureMakefileAfresh(rs, use_sonar) ==
    IF rs.err # NoErr THEN rs
    ELSE
      LET p == Join(rs.pd, <<"Makefile">>)
      IN  IF p \notin DOMAIN rs.fs
          THEN Raised(rs, "FileNotFoundError")
          ELSE [rs EXCEPT !.fs = WriteFile(@, p,
                   MakefileRewrite(Rendered("Makefile", <<>>),
                                   IF use_sonar THEN "True" ELSE "False"))]

\* open(Makefile, 'r+') raises FileNotFoundError when the file is absent.
ConfigureMakefile(rs, use_sonar) ==
    IF rs.err # NoErr THEN rs
    ELSE
      LET p == Join(rs.pd, <<"Makefile">>)
      IN  IF p \notin DOMAIN rs.fs
          THEN Raised(rs, "FileNotFoundError")
          ELSE [rs EXCEPT !.fs = WriteFile(@, p,
                   MakefileRewrite(rs.fs[p], IF use_sonar THEN "True" ELSE "False"))]

---------------------------------------------------------------------------
(* DevOpsTemplate.create *)

BaseComponents == <<"src", "tests", "make", "setuptools", "docker">>

Opt(b, c) == IF b THEN <<c>> ELSE <<>>

\* create with the two directory flags mixed up.
CreateDirsSwapped(rs, s, projectconfig, fault) ==
    LET r1 == IF projectconfig.add_docs_dir THEN Mkdir(rs, s, <<"scripts">>) ELSE rs
        r2 == IF projectconfig.add_scripts_dir THEN Mkdir(r1, s, <<"docs">>) ELSE r1
        use_sonar == ~projectconfig.no_sonar
        comps == BaseComponents
                 \o Opt(~projectconfig.no_gitignore_file, "git")
                 \o Opt(~projectconfig.no_readme_file, "readme")
                 \o Opt(use_sonar, "sonar")
        r3 == InstallAll(r2, s, comps, 1, projectconfig, fault)
    IN  ConfigureMakefile(r3, use_sonar)

\* create with __configure_makefile always called with use_sonar=True.
CreateSonarForced(rs, s, projectconfig, fault) ==
    LET r1 == IF projectconfig.add_scripts_dir THEN Mkdir(rs, s, <<"scripts">>) ELSE rs
        r2 == IF projectconfig.add_docs_dir THEN Mkdir(r1, s, <<"docs">>) ELSE r1
        comps == BaseComponents
                 \o Opt(~projectconfig.no_gitignore_file, "git")
                 \o Opt(~projectconfig.no_readme_file, "readme")
                 \o Opt(~projectconfig.no_sonar, "sonar")
        r3 == InstallAll(r2, s, comps, 1, projectconfig, fault)
    IN  ConfigureMakefile(r3, TRUE)

Create(rs, s, projectconfig, fault) ==
    LET r1 == IF projectconfig.add_scripts_dir THEN Mkdir(rs, s, <<"scripts">>) ELSE rs
        r2 == IF projectconfig.add_docs_dir THEN Mkdir(r1, s, <<"docs">>) ELSE r1
        use_sonar == ~projectconfig.no_sonar
        comps == BaseComponents
                 \o Opt(~projectconfig.no_gitignore_file, "git")
                 \o Opt(~projectconfig.no_readme_file, "readme")
                 \o Opt(use_sonar, "sonar")
        r3 == InstallAll(r2, s, comps, 1, projectconfig, fault)
    IN  ConfigureMakefile(r3, use_sonar)

(* DevOpsTemplate.manage *)

\* manage with __configure_makefile called whether or not sonar is added.
ManageConfigureAlways(rs, s, projectconfig, fault) ==
    LET r1 == IF projectconfig.add_scripts_dir THEN Mkdir(rs, s, <<"scripts">>) ELSE rs
        r2 == IF projectconfig.add_docs_dir THEN Mkdir(r1, s, <<"docs">>) ELSE r1
        comps == Opt(projectconfig.add_gitignore_file, "git")
                 \o Opt(projectconfig.add_readme_file, "readme")
                 \o Opt(projectconfig.add_sonar, "sonar")
        r3 == InstallAll(r2, s, comps, 1, projectconfig, fault)
    IN  ConfigureMakefile(r3, TRUE)

Manage(rs, s, projectconfig, fault) ==
    LET r1 == IF projectconfig.add_scripts_dir THEN Mkdir(rs, s, <<"scripts">>) ELSE rs
        r2 == IF projectconfig.add_docs_dir THEN Mkdir(r1, s, <<"docs">>) ELSE r1
        comps == Opt(projectconfig.add_gitignore_file, "git")
                 \o Opt(projectconfig.add_readme_file, "readme")
                 \o Opt(projectconfig.add_sonar, "sonar")
        r3 == InstallAll(r2, s, comps, 1, projectconfig, fault)
    IN  IF projectconfig.add_sonar THEN ConfigureMakefile(r3, TRUE) ELSE r3

---------------------------------------------------------------------------
(* DevOpsTemplate.cookiecutter *)

\* '{{cookiecutter.%s}}' % key
MarkerOf(key) ==
    CASE key = "project_name" -> "{{cookiecutter.project_name}}"
      [] key = "project_slug" -> "{{cookiecutter.project_slug}}"
      [] OTHER -> "{{cookiecutter.?}}"

\* A str as json.dump writes it between the quotes: '"' gets a backslash
\* before it.
JsonEscape(v) == IF v = "My \"Demo\"" THEN "My \\\"Demo\\\"" ELSE v

\* The str json.load reads from the text between the quotes.
JsonUnescape(t) == IF t = "My \\\"Demo\\\"" THEN "My \"Demo\"" ELSE t

\* json.dump(projectconfig, fh, indent=2): the file holds one member per
\* key, the key and its str value both written as JSON strings.
JsonDump(projectconfig) ==
    [kind |-> "json",
     members |-> {[name |-> JsonEscape(k), string |-> JsonEscape(projectconfig[k])] :
                      k \in DOMAIN projectconfig}]

\* json.load(fh) of such a file: the dict of its members.
JsonLoad(content) ==
    [k \in {JsonUnescape(m.name) : m \in content.members} |->
        JsonUnescape((CHOOSE m \in content.members : JsonUnescape(m.name) = k).string)]

\* fh.writelines(['# Cookiecutter Template'])
CookiecutterReadme == [kind |-> "text", data |-> "# Cookiecutter Template"]

\* The file written without __check_project_file.
WriteRootFileUnchecked(rs, s, fname, content) ==
    IF rs.err # NoErr THEN rs
    ELSE
      LET p  == Join(rs.pd, <<fname>>)
          ex == Exists(rs, p)
      IN  Logged(IF s.dry_run THEN rs
                 ELSE [rs EXCEPT !.fs = WriteFile(@, p, content)],
                 Entry(p, fname, ex, CheckProjectFile(ex, s), "Written"))

\* Lines 117-126 and 129-138: a file written directly at the project
\* directory under the conflict check; SkipFileError is caught.
WriteRootFile(rs, s, fname, content) ==
    IF rs.err # NoErr THEN rs
    ELSE
      LET p  == Join(rs.pd, <<fname>>)
          ex == Exists(rs, p)
          d  == CheckProjectFile(ex, s)
      IN  IF d = "Skip"
          THEN Logged(rs, Entry(p, fname, ex, d, "Skipped"))
          ELSE IF d = "Fail"
          THEN Raised(Logged(rs, Entry(p, fname, ex, d, "TargetExists")),
                      "FileExistsError")
          ELSE Logged(IF s.dry_run THEN rs
                      ELSE [rs EXCEPT !.fs = WriteFile(@, p, content)],
                      Entry(p, fname, ex, d, "Written"))

\* '{{cookiecutter.project_slug}}/'
CookiecutterProjectDname == <<"{{cookiecutter.project_slug}}">>

CookiecutterComponents ==
    <<"src", "tests", "make", "setuptools", "git", "readme", "docker", "sonar">>

\* The context made of the configured values themselves.
CookiecutterContextValues(projectconfig) == projectconfig

\* Lines 153-154: {key: '{{cookiecutter.%s}}' % key for key in projectconfig}
CookiecutterContext(projectconfig) == [key \in DOMAIN projectconfig |-> MarkerOf(key)]

\* cookiecutter with 'except FileExistsError' in place of 'except
\* SkipFileError' around the write of cookiecutter.json: the error of an
\* existing file is swallowed as a skip is.
CookiecutterCatchesFileExists(rs, s, projectconfig, fault) ==
    LET w  == WriteRootFile(rs, s, "cookiecutter.json", JsonDump(projectconfig))
        r1 == [w EXCEPT !.err = NoErr]
        r2 == WriteRootFile(r1, s, "README.md", CookiecutterReadme)
    IN  IF r2.err # NoErr THEN r2
        ELSE
          LET r3 == Mkdir(r2, s, CookiecutterProjectDname)
              cookiecutter_rootdir == r3.pd
              r4 == [r3 EXCEPT !.pd = Join(@, CookiecutterProjectDname)]
              r5 == InstallAll(r4, s, CookiecutterComponents, 1,
                               CookiecutterContext(projectconfig), fault)
          IN  IF r5.err # NoErr THEN r5
              ELSE [r5 EXCEPT !.pd = cookiecutter_rootdir]

\* cookiecutter without the assignment of line 168.
CookiecutterNoRestore(rs, s, projectconfig, fault) ==
    LET r1 == WriteRootFile(rs, s, "cookiecutter.json", JsonDump(projectconfig))
        r2 == WriteRootFile(r1, s, "README.md", CookiecutterReadme)
    IN  IF r2.err # NoErr THEN r2
        ELSE
          LET r3 == Mkdir(r2, s, CookiecutterProjectDname)
              r4 == [r3 EXCEPT !.pd = Join(@, CookiecutterProjectDname)]
          IN  InstallAll(r4, s, CookiecutterComponents, 1,
                         CookiecutterContext(projectconfig), fault)

Cookiecutter(rs, s, projectconfig, fault) ==
    LET r1 == WriteRootFile(rs, s, "cookiecutter.json", JsonDump(projectconfig))
        r2 == WriteRootFile(r1, s, "README.md", CookiecutterReadme)
    IN  IF r2.err # NoErr THEN r2
        ELSE
          LET r3 == Mkdir(r2, s, CookiecutterProjectDname)
              cookiecutter_rootdir == r3.pd
              r4 == [r3 EXCEPT !.pd = Join(@, CookiecutterProjectDname)]
              cookiecutterconfig == CookiecutterContext(projectconfig)
              r5 == InstallAll(r4, s, CookiecutterComponents, 1, cookiecutterconfig, fault)
          IN  IF r5.err # NoErr THEN r5
              ELSE [r5 EXCEPT !.pd = cookiecutter_rootdir]

---------------------------------------------------------------------------
(* Inputs *)

\* Rendering contexts: two complete ones and one without the template
\* variables (the context of test_manage).
CtxDemo == [project_name |-> "Demo", project_slug |-> "demo"]
CtxRnD == [project_name |-> "R&D", project_slug |-> "rd"]
CtxBare == [project_description |-> ""]

Contexts == {CtxDemo, CtxRnD, CtxBare}

\* The variables a complete context defines.
TemplateVars == {"project_name", "project_slug"}
Complete(ctx) == TemplateVars \subseteq DOMAIN ctx

CreateFlags ==
    [add_scripts_dir : BOOLEAN, add_docs_dir : BOOLEAN, no_gitignore_file : BOOLEAN,
     no_readme_file : BOOLEAN, no_sonar : BOOLEAN]

ManageFlags ==
    [add_scripts_dir : BOOLEAN, add_docs_dir : BOOLEAN, add_gitignore_file : BOOLEAN,
     add_readme_file : BOOLEAN, add_sonar : BOOLEAN]

CreateConfigs == {fl @@ CtxDemo : fl \in CreateFlags}
ManageConfigs == {fl @@ CtxBare : fl \in ManageFlags}

\* A configuration with a value that JSON writes with an escape.
CtxQuoted == [project_name |-> "My \"Demo\"", project_slug |-> "demo"]

CookiecutterConfigs == {CtxDemo, [project_name |-> "Demo"], CtxQuoted}

\* A component name that is no key of the catalog.
UnknownComponent == "unknown"

\* The names __install is called with.
ComponentNames == Components \cup {UnknownComponent}

\* The faults that can show in an installation of component c.
FaultsOf(c) ==
    {f \in Faults : f = NoFault \/ (c \in Components /\ f.tpl \in Range(Catalog[c]))}

\* The configuration of test_create.
CreateDefault ==
    [add_scripts_dir |-> TRUE, add_docs_dir |-> TRUE, no_gitignore_file |-> FALSE,
     no_readme_file |-> FALSE, no_sonar |-> FALSE] @@ CtxDemo

\* create is called with every configuration, and with a failing template
\* under the configuration of test_create.
CreateInputs ==
    {[cfg |-> c, fault |-> NoFault] : c \in CreateConfigs}
    \cup {[cfg |-> CreateDefault, fault |-> f] : f \in Faults}

\* cookiecutter is called with every configuration, and with a failing
\* template under the first.
CookiecutterInputs ==
    {[cfg |-> c, fault |-> NoFault] : c \in CookiecutterConfigs}
    \cup {[cfg |-> CtxDemo, fault |-> f] : f \in Faults}

\* __render is called with a bundled template and with an unknown one.
RenderInputs ==
    {[pkg |-> "setup.py", fault |-> f] : f \in Faults}
    \cup {[pkg |-> "non_existing_file", fault |-> NoFault]}
RenderTargets == {<<"setup.py">>}

\* The unknown template is also rendered to a target in a directory that
\* does not exist.
RenderTargetsOf(pkg) ==
    IF pkg = "setup.py" THEN RenderTargets ELSE RenderTargets \cup {<<"conf", "setup.py">>}

---------------------------------------------------------------------------
(* State machine *)

SessionFlags == [overwrite : BOOLEAN, skip : BOOLEAN, dry_run : BOOLEAN]

NoCall(f, d, s) ==
    [op |-> "init", comp |-> "", cfg |-> CtxBare, pkg |-> "", target |-> <<>>,
     fault |-> NoFault, s |-> s, pre_fs |-> f, pre_dirs |-> d, pre_pd |-> ProjectDir,
     err |-> NoErr, log |-> <<>>]

\* DevOpsTemplate.__init__: stores the arguments and creates the project
\* base directory if not present.
Construct(f, d, s) == Mkdir(StartRun(f, d, ProjectDir), s, ProjectDir)

\* What the first DevOpsTemplate is constructed on: no project directory
\* yet, or a project directory that holds a cookiecutter.json and nothing
\* else.
InitialFilesystems ==
    {[f |-> <<>>, d |-> {FsRoot}],
     [f |-> WriteFile(<<>>, Join(ProjectDir, <<"cookiecutter.json">>), JsonDump(CtxDemo)),
      d |-> {FsRoot, ProjectDir}]}

Init ==
    \E s \in SessionFlags, i \in InitialFilesystems :
        /\ session = [projectdir |-> ProjectDir] @@ s
        /\ fs = i.f
        /\ dirs = Construct(i.f, i.d, s).dirs
        /\ last = NoCall(i.f, i.d, s)
        /\ nops = 0
        /\ nsessions = 1

\* A new invocation: a DevOpsTemplate is constructed on the filesystem the
\* previous invocations left.
NewSession ==
    /\ nsessions < MaxSessions
    /\ \E s \in SessionFlags :
        /\ session' = [projectdir |-> ProjectDir] @@ s
        /\ dirs' = Construct(fs, dirs, s).dirs
        /\ last' = NoCall(fs, dirs, s)
    /\ nsessions' = nsessions + 1
    /\ UNCHANGED <<fs, nops>>

Flags(sess) == [overwrite |-> sess.overwrite, skip |-> sess.skip, dry_run |-> sess.dry_run]

Start == StartRun(fs, dirs, session.projectdir)

\* The state after a call that ended in run state r.
Called(op, comp, cfg, pkg, target, fault, r) ==
    /\ nops < MaxOps
    /\ fs' = r.fs
    /\ dirs' = r.dirs
    /\ session' = [session EXCEPT !.projectdir = r.pd]
    /\ last' = [op |-> op, comp |-> comp, cfg |-> cfg, pkg |-> pkg, target |-> target,
                fault |-> fault, s |-> Flags(session), pre_fs |-> fs, pre_dirs |-> dirs,
                pre_pd |-> session.projectdir, err |-> r.err, log |-> r.log]
    /\ nops' = nops + 1
    /\ UNCHANGED nsessions

CallCreate ==
    \E in \in CreateInputs :
        Called("create", "", in.cfg, "", <<>>, in.fault,
               Create(Start, Flags(session), in.cfg, in.fault))

CallManage ==
    \E cfg \in ManageConfigs :
        Called("manage", "", cfg, "", <<>>, NoFault, Manage(Start, Flags(session), cfg, NoFault))

CallCookiecutter ==
    \E in \in CookiecutterInputs :
        Called("cookiecutter", "", in.cfg, "", <<>>, in.fault,
               Cookiecutter(Start, Flags(session), in.cfg, in.fault))

CallInstall ==
    \E c \in ComponentNames, ctx \in Contexts :
        \E fault \in FaultsOf(c) :
            Called("install", c, ctx, "", <<>>, fault,
                   Install(Start, Flags(session), c, ctx, fault))

CallRender ==
    \E in \in RenderInputs :
        \E target \in RenderTargetsOf(in.pkg) :
            Called("render", "", CtxDemo, in.pkg, target, in.fault,
                   Render(Start, Flags(session), in.pkg, target, CtxDemo, in.fault))

\* The directory names __mkdir is called with by create and manage.
MkdirNames == {<<"scripts">>, <<"docs">>}

CallMkdir ==
    \E dname \in MkdirNames :
        Called("mkdir", "", CtxBare, "", dname, NoFault, Mkdir(Start, Flags(session), dname))

Next ==
    \/ NewSession
    \/ CallMkdir
    \/ CallCreate
    \/ CallManage
    \/ CallCookiecutter
    \/ CallInstall
    \/ CallRender

Spec == Init /\ [][Next]_vars

---------------------------------------------------------------------------
(* Vocabulary of the properties *)

Absent == [kind |-> "absent"]

\* What is at path p in files f: its content, or Absent.
FileState(f, p) == IF p \in DOMAIN f THEN f[p] ELSE Absent

StrictFlags(s) == ~s.overwrite /\ ~s.skip

\* The targets of the last call when it is __install: one per path template
\* of the component, under the project directory.
InstallTargets ==
    [i \in 1..(IF last.comp \in Components THEN Len(Catalog[last.comp]) ELSE 0) |->
        Join(last.pre_pd, RenderPath(Catalog[last.comp][i], last.cfg))]

\* Every target of the last __install call was a file before the call.
InstallTargetsExisted == \A i \in DOMAIN InstallTargets : InstallTargets[i] \in DOMAIN last.pre_fs

\* The decision table of the conflict check, as the specification words it.
Decision(existed, s) ==
    IF ~existed THEN "Proceed"
    ELSE IF s.skip THEN "Skip"
    ELSE IF ~s.overwrite THEN "Fail"
    ELSE "Proceed"

\* The relative path a path template denotes under a complete context: the
\* placeholder of project_slug replaced by the value of project_slug.
ExpectedPath(t, ctx) ==
    CASE t = "{{project_slug}}/__init__.py" -> <<ctx.project_slug, "__init__.py">>
      [] t = "tests/__init__.py" -> <<"tests", "__init__.py">>
      [] OTHER -> <<t>>

---------------------------------------------------------------------------
(* Properties *)

\* C1: every conflict check of every call decides by the table "absent ->
\* Proceed, else skip -> Skip, else not overwrite -> Fail, else Proceed"; the
\* first check of a call sees the filesystem the call started on; and with
\* skip and overwrite both set an existing target is skipped, and __install,
\* __render and cookiecutter leave its content as it was.
C1_ConflictDecisionOrder ==
    \A i \in 1..Len(last.log) :
        LET e == last.log[i]
        IN  /\ e.decision = Decision(e.existed, last.s)
            /\ i = 1 => e.existed = (e.path \in DOMAIN last.pre_fs \/ e.path \in last.pre_dirs)
            /\ (e.existed /\ last.s.skip /\ last.s.overwrite) =>
                   /\ e.decision = "Skip"
                   /\ e.outcome = "Skipped"
                   /\ last.op \in {"install", "render", "cookiecutter"} =>
                          FileState(fs, e.path) = FileState(last.pre_fs, e.path)

C1_Witness ==
    /\ last.s.skip /\ last.s.overwrite
    /\ \E i \in 1..Len(last.log) :
           /\ last.log[i].existed
           /\ last.log[i].decision = "Skip"
           /\ last.log[i].path \in DOMAIN fs

\* C2: __install of a component with a complete context, overwrite=false,
\* skip=false, dry_run=false and templates that render, into a project
\* directory holding no file, succeeds and creates exactly one file per path
\* template of the component, at its rendered path, and no other file.
C2_InstallOnEmptyDir ==
    (/\ last.op = "install" /\ last.comp \in Components
     /\ StrictFlags(last.s) /\ ~last.s.dry_run
     /\ DOMAIN last.pre_fs = {}
     /\ Complete(last.cfg)
     /\ last.fault = NoFault)
    => /\ last.err = NoErr
       /\ DOMAIN fs = {ProjectDir \o ExpectedPath(Catalog[last.comp][i], last.cfg) :
                           i \in 1..Len(Catalog[last.comp])}
       /\ Cardinality(DOMAIN fs) = Len(Catalog[last.comp])
       /\ \A i \in 1..Len(Catalog[last.comp]) :
              LET t == Catalog[last.comp][i]
              IN  fs[ProjectDir \o ExpectedPath(t, last.cfg)] = Rendered(t, last.cfg)

C2_Witness ==
    /\ last.op = "install" /\ last.comp = "setuptools"
    /\ StrictFlags(last.s) /\ ~last.s.dry_run
    /\ DOMAIN last.pre_fs = {}
    /\ Complete(last.cfg) /\ last.fault = NoFault
    /\ Cardinality(DOMAIN fs) = 2

\* C3: __install with overwrite=false and skip=false of a component whose
\* targets all exist fails with FileExistsError at the first path template
\* and writes nothing: files and directories are as before the call.
C3_RerunFailsWithoutWrites ==
    (last.op = "install" /\ last.comp \in Components /\ StrictFlags(last.s) /\ InstallTargetsExisted)
    => /\ last.err = "FileExistsError"
       /\ Len(last.log) = 1
       /\ last.log[1].path = InstallTargets[1]
       /\ last.log[1].outcome = "TargetExists"
       /\ fs = last.pre_fs
       /\ dirs = last.pre_dirs

C3_Witness ==
    /\ last.op = "install" /\ last.comp = "setuptools"
    /\ StrictFlags(last.s) /\ ~last.s.dry_run
    /\ InstallTargetsExisted
    /\ last.err = "FileExistsError"

\* C4: __install with skip=true of a component whose targets all exist
\* raises no error, skips every target and writes nothing: files and
\* directories are as before the call.
C4_RerunWithSkipWritesNothing ==
    (last.op = "install" /\ last.comp \in Components /\ last.s.skip /\ InstallTargetsExisted)
    => /\ last.err = NoErr
       /\ Len(last.log) = Len(Catalog[last.comp])
       /\ \A i \in 1..Len(last.log) : last.log[i].outcome = "Skipped"
       /\ fs = last.pre_fs
       /\ dirs = last.pre_dirs

C4_Witness ==
    /\ last.op = "install" /\ last.comp = "setuptools"
    /\ last.s.skip /\ ~last.s.dry_run
    /\ InstallTargetsExisted
    /\ last.err = NoErr
    /\ \E i \in DOMAIN InstallTargets :
           fs[InstallTargets[i]] # Rendered(Catalog[last.comp][i], last.cfg)

\* C5: __install with overwrite=true, skip=false, dry_run=false and templates
\* that render, of a component whose targets all exist, succeeds and leaves
\* at every target the rendering of its template; and installing the same
\* component with the same context once more changes nothing.
C5_OverwriteReplacesIdempotent ==
    (/\ last.op = "install" /\ last.comp \in Components
     /\ last.s.overwrite /\ ~last.s.skip /\ ~last.s.dry_run
     /\ last.fault = NoFault
     /\ InstallTargetsExisted)
    => /\ last.err = NoErr
       /\ \A i \in DOMAIN InstallTargets :
              fs[InstallTargets[i]] = Rendered(Catalog[last.comp][i], last.cfg)
       /\ \A p \in DOMAIN last.pre_fs \ Range(InstallTargets) : fs[p] = last.pre_fs[p]
       /\ LET again == Install(StartRun(fs, dirs, session.projectdir), last.s,
                               last.comp, last.cfg, NoFault)
          IN  again.err = NoErr /\ again.fs = fs /\ again.dirs = dirs

C5_Witness ==
    /\ last.op = "install" /\ last.comp = "setuptools"
    /\ last.s.overwrite /\ ~last.s.skip /\ ~last.s.dry_run
    /\ last.fault = NoFault
    /\ InstallTargetsExisted
    /\ \A i \in DOMAIN InstallTargets :
           /\ last.pre_fs[InstallTargets[i]] # fs[InstallTargets[i]]
           /\ fs[InstallTargets[i]] = Rendered(Catalog[last.comp][i], last.cfg)

\* The last call run again from the filesystem it started on, by a session
\* with flags s (whose constructor has run).
Replay(s) ==
    LET start == StartRun(last.pre_fs, Construct(last.pre_fs, last.pre_dirs, s).dirs,
                          last.pre_pd)
    IN  CASE last.op = "create" -> Create(start, s, last.cfg, last.fault)
          [] last.op = "manage" -> Manage(start, s, last.cfg, last.fault)
          [] last.op = "cookiecutter" -> Cookiecutter(start, s, last.cfg, last.fault)
          [] last.op = "install" -> Install(start, s, last.comp, last.cfg, last.fault)
          [] last.op = "render" ->
                Render(start, s, last.pkg, last.target, last.cfg, last.fault)
          [] last.op = "mkdir" -> Mkdir(start, s, last.target)
          [] OTHER -> start

\* The per-file outcome classification of a run.
Outcomes(log) == [i \in 1..Len(log) |-> <<log[i].path, log[i].outcome>>]

\* C6: with dry_run=true no call (constructor, create, manage, cookiecutter,
\* __install, __render) creates or modifies a file or a directory.
C6_DryRunChangesNothing ==
    last.s.dry_run => (fs = last.pre_fs /\ dirs = last.pre_dirs)

\* C7: a call with dry_run=true and templates that render yields the same
\* per-file outcomes and the same error, or none, as the same call with
\* dry_run=false from the same filesystem.
C7_DryRunSameOutcome ==
    (last.op # "init" /\ last.s.dry_run /\ last.fault = NoFault)
    => LET wet == Replay([last.s EXCEPT !.dry_run = FALSE])
       IN  /\ Outcomes(wet.log) = Outcomes(last.log)
           /\ wet.err = last.err

\* The entry of the target at which the last call failed.
FailedEntry == last.log[Len(last.log)]

\* C8: when the content rendering of a target fails, the target is as it
\* was before the call: absent if it was absent, its old content if it
\* existed; no truncated or partly written target is left.
C8_RenderFailureLeavesTarget ==
    last.err = "RenderError" =>
        FileState(fs, FailedEntry.path) = FileState(last.pre_fs, FailedEntry.path)

\* The path templates of component c that use a variable absent from ctx.
Unresolved(c, ctx) ==
    {i \in 1..Len(Catalog[c]) :
        \E k \in 1..Len(ParseTemplate(Catalog[c][i])) :
            /\ ParseTemplate(Catalog[c][i])[k].var
            /\ ParseTemplate(Catalog[c][i])[k].s \notin DOMAIN ctx}

\* C9: __install (dry_run=false) of a component with a path template that
\* uses a variable absent from the context ends with an error, and the
\* target of that template is not written.
C9_UnresolvedVariableFails ==
    (last.op = "install" /\ last.comp \in Components /\ ~last.s.dry_run /\ Unresolved(last.comp, last.cfg) # {})
    => /\ last.err # NoErr
       /\ \A i \in Unresolved(last.comp, last.cfg) :
              FileState(fs, InstallTargets[i]) = FileState(last.pre_fs, InstallTargets[i])

RECURSIVE TemplatesOf(_, _)
\* The path templates of the components comps[i..], in order.
TemplatesOf(comps, i) ==
    IF i > Len(comps) THEN <<>>
    ELSE Catalog[comps[i]] \o TemplatesOf(comps, i + 1)

\* The components the last call is to install, in order, as the
\* specification lists them per operation.
PlannedComponents ==
    CASE last.op = "install" -> <<last.comp>>
      [] last.op = "create" ->
            <<"src", "tests", "make", "setuptools", "docker">>
            \o (IF last.cfg.no_gitignore_file THEN <<>> ELSE <<"git">>)
            \o (IF last.cfg.no_readme_file THEN <<>> ELSE <<"readme">>)
            \o (IF last.cfg.no_sonar THEN <<>> ELSE <<"sonar">>)
      [] last.op = "manage" ->
            (IF last.cfg.add_gitignore_file THEN <<"git">> ELSE <<>>)
            \o (IF last.cfg.add_readme_file THEN <<"readme">> ELSE <<>>)
            \o (IF last.cfg.add_sonar THEN <<"sonar">> ELSE <<>>)
      [] last.op = "cookiecutter" ->
            <<"src", "tests", "make", "setuptools", "git", "readme", "docker", "sonar">>
      [] OTHER -> <<>>

\* The context the last call renders with.
PlannedContext ==
    IF last.op = "cookiecutter"
    THEN [k \in DOMAIN last.cfg |-> MarkerOf(k)]
    ELSE last.cfg

\* The targets of the last call, in the order the call reaches them.
PlannedTargets ==
    LET ts   == TemplatesOf(PlannedComponents, 1)
        root == IF last.op = "cookiecutter"
                THEN Join(last.pre_pd, CookiecutterProjectDname)
                ELSE last.pre_pd
        head == IF last.op = "cookiecutter"
                THEN <<Join(last.pre_pd, <<"cookiecutter.json">>),
                       Join(last.pre_pd, <<"README.md">>)>>
                ELSE <<>>
    IN  head \o [i \in 1..Len(ts) |-> Join(root, RenderPath(ts[i], PlannedContext))]

\* C10: a call of __install, create, manage or cookiecutter that ends with
\* FileExistsError or a rendering error ended at the target where the error
\* arose: the targets before it were written or skipped in order and are
\* kept (no rollback, no later rewrite), and no target after it, of the same
\* or of a later component, was touched.
C10_FirstErrorAborts ==
    (/\ last.op \in {"install", "create", "manage", "cookiecutter"}
     /\ last.err \in {"FileExistsError", "RenderError"})
    => LET k == Len(last.log)
           plan == PlannedTargets
       IN  /\ k >= 1 /\ k <= Len(plan)
           /\ \A i \in 1..k : last.log[i].path = plan[i]
           /\ last.log[k].outcome \in {"TargetExists", "RenderError"}
           /\ \A i \in 1..(k - 1) :
                  /\ last.log[i].outcome \in {"Written", "Skipped"}
                  /\ (last.log[i].outcome = "Written" /\ ~last.s.dry_run) =>
                         /\ plan[i] \in DOMAIN fs
                         /\ fs[plan[i]].kind \in {"full", "json", "text"}
                         /\ fs[plan[i]] # FileState(last.pre_fs, plan[i])
                            \/ last.s.overwrite
                  /\ last.log[i].outcome = "Skipped" =>
                         FileState(fs, plan[i]) = FileState(last.pre_fs, plan[i])
           /\ \A i \in (k + 1)..Len(plan) :
                  plan[i] \notin {plan[j] : j \in 1..k} =>
                      FileState(fs, plan[i]) = FileState(last.pre_fs, plan[i])
           /\ \A p \in DOMAIN fs \ Range(plan) : FileState(last.pre_fs, p) = fs[p]

C10_Witness ==
    /\ last.op = "create"
    /\ last.err = "RenderError"
    /\ ~last.s.dry_run
    /\ Len(last.log) < Len(PlannedTargets)
    /\ \E i \in 1..(Len(last.log) - 1) :
           /\ last.log[i].outcome = "Written"
           /\ last.log[i].path \notin DOMAIN last.pre_fs
           /\ last.log[i].path \in DOMAIN fs
    /\ \E i \in (Len(last.log) + 1)..Len(PlannedTargets) : PlannedTargets[i] \notin DOMAIN fs

\* C11: __install of a name that is no key of the catalog fails with KeyError
\* before any path is rendered or checked: no target is reached, and files,
\* directories and the project directory are as before the call, under
\* every flag setting.
C11_UnknownComponentFails ==
    (last.op = "install" /\ last.comp \notin Components)
    => /\ last.err = "KeyError"
       /\ last.log = <<>>
       /\ fs = last.pre_fs
       /\ dirs = last.pre_dirs
       /\ session.projectdir = last.pre_pd

C11_Witness ==
    /\ last.op = "install" /\ last.comp = UnknownComponent
    /\ last.err = "KeyError"
    /\ ~last.s.dry_run /\ last.s.overwrite
    /\ DOMAIN fs # {}

\* C12: __render of a template that is not bundled fails with
\* FileNotFoundError under every flag setting, whether the target exists or
\* not, before the conflict check and before any directory or file is
\* created: no target is checked, and files and directories are as before.
C12_UnknownTemplateFails ==
    (last.op = "render" /\ last.pkg \notin BundledTemplates)
    => /\ last.err = "FileNotFoundError"
       /\ last.log = <<>>
       /\ fs = last.pre_fs
       /\ dirs = last.pre_dirs

C12_Witness ==
    /\ last.op = "render" /\ last.pkg = "non_existing_file"
    /\ last.err = "FileNotFoundError"
    /\ last.s.skip /\ ~last.s.dry_run
    /\ Join(last.pre_pd, last.target) \in DOMAIN last.pre_fs

\* C13: after a cookiecutter call that raised nothing, the project directory
\* of the session is the one it had before the call.
C13_CookiecutterRestoresProjectDir ==
    (last.op = "cookiecutter" /\ last.err = NoErr)
    => session.projectdir = last.pre_pd

C13_Witness ==
    /\ last.op = "cookiecutter" /\ last.err = NoErr
    /\ ~last.s.dry_run
    /\ session.projectdir = ProjectDir
    /\ \E i \in 1..Len(last.log) :
           /\ last.log[i].outcome = "Written"
           /\ Dirname(last.log[i].path) = Join(ProjectDir, CookiecutterProjectDname)
           /\ last.log[i].path \in DOMAIN fs

\* Whether path p was a file or a directory before the last call.
ExistedBefore(p) == p \in DOMAIN last.pre_fs \/ p \in last.pre_dirs

\* The two files cookiecutter writes directly at the project directory.
CookiecutterJsonPath == Join(last.pre_pd, <<"cookiecutter.json">>)
CookiecutterReadmePath == Join(last.pre_pd, <<"README.md">>)

\* C14: cookiecutter treats cookiecutter.json and then README.md, both
\* directly at the project directory, by the same conflict policy. A target
\* that is absent, or present with overwrite and without skip, is written
\* (dry_run=false): cookiecutter.json then deserializes to the very
\* configuration passed in. A present target with skip is left as it was
\* and the call goes on to the next target. A present target with neither
\* flag ends the call with FileExistsError at that target, itself unchanged.
C14_CookiecutterRootFiles ==
    last.op = "cookiecutter" =>
        LET J   == CookiecutterJsonPath
            R   == CookiecutterReadmePath
            dJ  == Decision(ExistedBefore(J), last.s)
            dR  == Decision(ExistedBefore(R), last.s)
        IN  /\ Len(last.log) >= 1 /\ last.log[1].path = J
            /\ (dJ = "Proceed" /\ ~last.s.dry_run) =>
                   /\ J \in DOMAIN fs
                   /\ fs[J].kind = "json"
                   /\ JsonLoad(fs[J]) = last.cfg
            /\ dJ = "Skip" =>
                   /\ FileState(fs, J) = FileState(last.pre_fs, J)
                   /\ last.log[1].outcome = "Skipped"
            /\ dJ = "Fail" =>
                   /\ last.err = "FileExistsError" /\ Len(last.log) = 1
                   /\ fs = last.pre_fs /\ dirs = last.pre_dirs
            /\ dJ # "Fail" =>
                   /\ Len(last.log) >= 2 /\ last.log[2].path = R
                   /\ (dR = "Proceed" /\ ~last.s.dry_run) =>
                          /\ R \in DOMAIN fs
                          /\ fs[R] = CookiecutterReadme
                   /\ dR = "Skip" =>
                          /\ FileState(fs, R) = FileState(last.pre_fs, R)
                          /\ last.log[2].outcome = "Skipped"
                          /\ Len(last.log) >= 3
                   /\ dR = "Fail" =>
                          /\ last.err = "FileExistsError" /\ Len(last.log) = 2
                          /\ FileState(fs, R) = FileState(last.pre_fs, R)
                   /\ dR # "Fail" => Len(last.log) >= 3

C14_Witness ==
    /\ last.op = "cookiecutter" /\ last.err = NoErr
    /\ last.s.skip /\ ~last.s.dry_run
    /\ last.cfg = CtxQuoted
    /\ CookiecutterJsonPath \in DOMAIN last.pre_fs
    /\ fs[CookiecutterJsonPath] = last.pre_fs[CookiecutterJsonPath]
    /\ JsonLoad(fs[CookiecutterJsonPath]) = CtxDemo
    /\ fs[CookiecutterReadmePath] = CookiecutterReadme

\* Path p lies below directory d.
IsUnder(p, d) == Len(p) > Len(d) /\ SubSeq(p, 1, Len(d)) = d

\* The subdirectory cookiecutter installs into.
CookiecutterSubdir == Join(last.pre_pd, <<"{{cookiecutter.project_slug}}">>)

\* C15: a cookiecutter call (dry_run=false) that raised nothing, on a project
\* directory holding no file, installed every path template of src, tests,
\* make, setuptools, git, readme, docker and sonar, whatever the
\* configuration; every such file is below the subdirectory named
\* '{{cookiecutter.project_slug}}', the only files directly in the project
\* directory are cookiecutter.json and README.md, and the Makefile was not
\* reconfigured.
C15_CookiecutterInstallsAllUnderSubdir ==
    (/\ last.op = "cookiecutter" /\ last.err = NoErr
     /\ ~last.s.dry_run
     /\ DOMAIN last.pre_fs = {})
    => LET ts == TemplatesOf(<<"src", "tests", "make", "setuptools", "git", "readme",
                              "docker", "sonar">>, 1)
       IN  /\ Len(last.log) = 2 + Len(ts)
           /\ \A i \in 1..Len(ts) :
                  LET e == last.log[2 + i]
                  IN  /\ e.tpl = ts[i]
                      /\ e.outcome = "Written"
                      /\ e.path \in DOMAIN fs
                      /\ IsUnder(e.path, CookiecutterSubdir)
           /\ \A p \in DOMAIN fs :
                  \/ p \in {CookiecutterJsonPath, CookiecutterReadmePath}
                  \/ IsUnder(p, CookiecutterSubdir)
           /\ fs[Join(CookiecutterSubdir, <<"Makefile">>)].sonar = "template"

\* The target of the path template '{{project_slug}}/__init__.py' in a
\* cookiecutter call whose configuration has the key project_slug.
CookiecutterInitPath ==
    CookiecutterSubdir \o <<"{{cookiecutter.project_slug}}", "__init__.py">>

\* C16: the context cookiecutter renders with has exactly the keys of the
\* configuration passed in, and its value at key k is the text
\* '{{cookiecutter.k}}', whatever the configured value. So the path template
\* that is the placeholder of project_slug renders to that marker and not
\* to the configured value, and the files written carry markers only.
C16_CookiecutterContextIsMarkers ==
    last.op = "cookiecutter" =>
        LET ctx == CookiecutterContext(last.cfg)
        IN  /\ DOMAIN ctx = DOMAIN last.cfg
            /\ \A k \in DOMAIN last.cfg : ctx[k] = "{{cookiecutter." \o k \o "}}"
            /\ "project_slug" \in DOMAIN last.cfg =>
                   /\ RenderPath("{{project_slug}}/__init__.py", ctx)
                          = <<"{{cookiecutter.project_slug}}", "__init__.py">>
                   /\ Len(last.log) >= 3 =>
                          /\ last.log[3].path = CookiecutterInitPath
                          /\ last.log[3].path
                                 # CookiecutterSubdir \o <<last.cfg.project_slug, "__init__.py">>
            /\ \A i \in 3..Len(last.log) :
                   (last.log[i].outcome = "Written" /\ ~last.s.dry_run) =>
                       \A k \in DOMAIN last.cfg \cap TemplateVars :
                           LET field == IF k = "project_name" THEN "name" ELSE "slug"
                           IN  fs[last.log[i].path][field] = "{{cookiecutter." \o k \o "}}"

C16_Witness ==
    /\ last.op = "cookiecutter" /\ last.err = NoErr
    /\ ~last.s.dry_run
    /\ last.cfg = CtxQuoted
    /\ CookiecutterInitPath \in DOMAIN fs
    /\ CookiecutterInitPath \notin DOMAIN last.pre_fs
    /\ fs[CookiecutterInitPath].slug = "{{cookiecutter.project_slug}}"
    /\ fs[CookiecutterInitPath].name = "{{cookiecutter.project_name}}"

\* The path templates the log of the last call went through, in order.
LoggedTemplates == [i \in 1..Len(last.log) |-> last.log[i].tpl]

\* The Makefile of the project directory of the last call.
MakefilePath == Join(last.pre_pd, <<"Makefile">>)

\* C17: a create call that raised nothing went through the path templates
\* of src, tests, make, setuptools and docker under every configuration,
\* then through those of git, readme and sonar exactly for the flags
\* no_gitignore_file, no_readme_file and no_sonar that are false, and
\* nothing else; with dry_run=false every such target is a file afterwards;
\* and the Makefile was reconfigured after the last install: its
\* DOCKERSONAR is 'True' when no_sonar is false and 'False' otherwise.
C17_CreateComponentsAndReconfiguration ==
    (last.op = "create" /\ last.err = NoErr)
    => /\ LoggedTemplates =
              TemplatesOf(<<"src", "tests", "make", "setuptools", "docker">>, 1)
              \o (IF last.cfg.no_gitignore_file THEN <<>> ELSE Catalog["git"])
              \o (IF last.cfg.no_readme_file THEN <<>> ELSE Catalog["readme"])
              \o (IF last.cfg.no_sonar THEN <<>> ELSE Catalog["sonar"])
       /\ \A i \in 1..Len(last.log) :
              /\ last.log[i].outcome \in {"Written", "Skipped"}
              /\ ~last.s.dry_run => last.log[i].path \in DOMAIN fs
       /\ MakefilePath \in DOMAIN fs
       /\ fs[MakefilePath].sonar = (IF last.cfg.no_sonar THEN "False" ELSE "True")

C17_Witness ==
    /\ last.op = "create" /\ last.err = NoErr
    /\ ~last.s.dry_run /\ last.s.overwrite /\ ~last.s.skip
    /\ last.cfg.no_sonar /\ last.cfg.no_gitignore_file /\ ~last.cfg.no_readme_file
    /\ MakefilePath \in DOMAIN last.pre_fs
    /\ last.pre_fs[MakefilePath].sonar = "True"
    /\ fs[MakefilePath].sonar = "False"
    /\ Join(last.pre_pd, <<"README.md">>) \in DOMAIN fs
    /\ Join(last.pre_pd, <<"sonar-project.properties">>) \in DOMAIN fs

\* The two optional directories of the project directory of the last call.
ScriptsDir == Join(last.pre_pd, <<"scripts">>)
DocsDir == Join(last.pre_pd, <<"docs">>)

\* C18: after a create call with dry_run=false the directory scripts exists
\* when add_scripts_dir is true, and docs when add_docs_dir is true; with a
\* flag false the directory is there only if it was there before, so on an
\* empty project directory create with both flags false makes neither, and
\* when it raised nothing the files of src, tests, make, setuptools and
\* docker are installed all the same.
C18_CreateOptionalDirectories ==
    (last.op = "create" /\ ~last.s.dry_run)
    => /\ ScriptsDir \in dirs <=> (last.cfg.add_scripts_dir \/ ScriptsDir \in last.pre_dirs)
       /\ DocsDir \in dirs <=> (last.cfg.add_docs_dir \/ DocsDir \in last.pre_dirs)
       /\ (/\ DOMAIN last.pre_fs = {}
           /\ last.pre_dirs = {FsRoot, ProjectDir}
           /\ ~last.cfg.add_scripts_dir /\ ~last.cfg.add_docs_dir
           /\ last.err = NoErr)
          => /\ ScriptsDir \notin dirs /\ DocsDir \notin dirs
             /\ \A t \in Range(TemplatesOf(<<"src", "tests", "make", "setuptools",
                                              "docker">>, 1)) :
                    Join(last.pre_pd, ExpectedPath(t, last.cfg)) \in DOMAIN fs

C18_Witness ==
    /\ last.op = "create" /\ last.err = NoErr /\ ~last.s.dry_run
    /\ DOMAIN last.pre_fs = {} /\ last.pre_dirs = {FsRoot, ProjectDir}
    /\ ~last.cfg.add_scripts_dir /\ last.cfg.add_docs_dir
    /\ ScriptsDir \notin dirs /\ DocsDir \in dirs
    /\ Join(last.pre_pd, <<"tests", "__init__.py">>) \in DOMAIN fs

\* The path templates manage is to go through under the configuration of the
\* last call.
ManageTemplates ==
    (IF last.cfg.add_gitignore_file THEN Catalog["git"] ELSE <<>>)
    \o (IF last.cfg.add_readme_file THEN Catalog["readme"] ELSE <<>>)
    \o (IF last.cfg.add_sonar THEN Catalog["sonar"] ELSE <<>>)

\* C19: manage goes through the path templates of git, readme and sonar
\* exactly for the flags add_gitignore_file, add_readme_file and add_sonar
\* that are true, and through no template of src, tests, make, setuptools
\* or docker, whose targets it leaves as they were. With add_sonar it
\* reconfigures the Makefile after the install of sonar, with DOCKERSONAR
\* 'True': that is the only change to the Makefile, and when the Makefile
\* is missing the call fails only after sonar was installed. Without
\* add_sonar the Makefile is left as it was.
C19_ManageComponentsAndReconfiguration ==
    (last.op = "manage" /\ last.err \in {NoErr, "FileNotFoundError"})
    => /\ LoggedTemplates = ManageTemplates
       /\ \A i \in 1..Len(last.log) :
              /\ last.log[i].outcome \in {"Written", "Skipped"}
              /\ ~last.s.dry_run => last.log[i].path \in DOMAIN fs
       /\ \A t \in Range(TemplatesOf(<<"src", "tests", "setuptools", "docker">>, 1)) :
              LET p == Join(last.pre_pd, RenderPath(t, last.cfg))
              IN  FileState(fs, p) = FileState(last.pre_fs, p)
       /\ last.err = "FileNotFoundError" =>
              /\ last.cfg.add_sonar
              /\ MakefilePath \notin DOMAIN last.pre_fs
              /\ MakefilePath \notin DOMAIN fs
       /\ (last.err = NoErr /\ last.cfg.add_sonar) =>
              /\ MakefilePath \in DOMAIN last.pre_fs
              /\ fs[MakefilePath] = [last.pre_fs[MakefilePath] EXCEPT !.sonar = "True"]
       /\ ~last.cfg.add_sonar =>
              FileState(fs, MakefilePath) = FileState(last.pre_fs, MakefilePath)

C19_Witness ==
    /\ last.op = "manage" /\ last.err = NoErr
    /\ ~last.s.dry_run
    /\ last.cfg.add_sonar /\ ~last.cfg.add_gitignore_file /\ last.cfg.add_readme_file
    /\ last.pre_fs[MakefilePath].sonar = "template"
    /\ fs[MakefilePath].sonar = "True"
    /\ Join(last.pre_pd, <<"sonar-project.properties">>) \notin DOMAIN last.pre_fs
    /\ Join(last.pre_pd, <<"sonar-project.properties">>) \in DOMAIN fs
    /\ Join(last.pre_pd, <<".gitignore">>) \notin DOMAIN fs
    /\ Join(last.pre_pd, <<"setup.py">>) \notin DOMAIN fs

\* C20: a call with overwrite=false and skip=false that ends with
\* FileExistsError has written no file: the files are as before the call.
C20_FailedStrictRunWroteNothing ==
    (last.op # "init" /\ StrictFlags(last.s) /\ last.err = "FileExistsError")
    => fs = last.pre_fs

\* C20, as the code has it: the conflict check of a target comes before the
\* write of that target, not before the writes of the call. A call with
\* overwrite=false and skip=false that ends with FileExistsError ended at a
\* target that existed before the call and left it as it was; every target
\* before it was absent and (dry_run=false) has been written; no file that
\* existed before the call was changed, and nothing but those earlier
\* targets was created. The call has written no file exactly when it failed
\* at its first target.
C20_CollisionCaughtBeforeItsWrite ==
    (last.op # "init" /\ StrictFlags(last.s) /\ last.err = "FileExistsError")
    => LET k == Len(last.log)
           earlier == {last.log[i].path : i \in 1..(k - 1)}
       IN  /\ k >= 1
           /\ last.log[k].outcome = "TargetExists"
           /\ ExistedBefore(last.log[k].path)
           /\ FileState(fs, last.log[k].path) = FileState(last.pre_fs, last.log[k].path)
           /\ \A i \in 1..(k - 1) :
                  /\ last.log[i].outcome = "Written"
                  /\ ~ExistedBefore(last.log[i].path)
                  /\ ~last.s.dry_run => last.log[i].path \in DOMAIN fs
           /\ \A p \in DOMAIN last.pre_fs : FileState(fs, p) = last.pre_fs[p]
           /\ DOMAIN fs \ DOMAIN last.pre_fs = (IF last.s.dry_run THEN {} ELSE earlier)
           /\ (fs = last.pre_fs) <=> (k = 1 \/ last.s.dry_run)

C20_Witness ==
    /\ last.op = "create" /\ StrictFlags(last.s) /\ ~last.s.dry_run
    /\ last.err = "FileExistsError"
    /\ Len(last.log) > 1
    /\ last.log[1].path \notin DOMAIN last.pre_fs
    /\ last.log[1].path \in DOMAIN fs
    /\ last.log[Len(last.log)].path \in DOMAIN last.pre_fs

\* C21: after a cookiecutter call that ended with an error raised while the
\* components were being installed (FileExistsError, FileNotFoundError, a
\* rendering error), the project directory of the session is the one it
\* had before the call, as after a call that raised nothing.
C21_CookiecutterRestoresOnError ==
    (last.op = "cookiecutter" /\ last.err # NoErr /\ Len(last.log) >= 3)
    => session.projectdir = last.pre_pd

\* C22: __install with skip=true, dry_run=false and templates that render
\* raises no error whatever part of the component's targets exists: it goes
\* through every path template, writes exactly the targets that did not
\* exist, leaves every target that existed as it was, and changes nothing
\* else.
C22_SkipOnPartlyPopulatedDir ==
    (/\ last.op = "install" /\ last.comp \in Components
     /\ last.s.skip /\ ~last.s.dry_run
     /\ last.fault = NoFault)
    => /\ last.err = NoErr
       /\ Len(last.log) = Len(Catalog[last.comp])
       /\ \A i \in DOMAIN InstallTargets :
              LET p == InstallTargets[i]
              IN  /\ last.log[i].path = p
                  /\ ExistedBefore(p) =>
                         /\ last.log[i].outcome = "Skipped"
                         /\ FileState(fs, p) = FileState(last.pre_fs, p)
                  /\ ~ExistedBefore(p) =>
                         /\ last.log[i].outcome = "Written"
                         /\ p \in DOMAIN fs
                         /\ fs[p] = Rendered(Catalog[last.comp][i], last.cfg)
       /\ \A p \in DOMAIN last.pre_fs : fs[p] = last.pre_fs[p]
       /\ DOMAIN fs \ DOMAIN last.pre_fs =
              {InstallTargets[i] : i \in DOMAIN InstallTargets} \ DOMAIN last.pre_fs

C22_Witness ==
    /\ last.op = "install" /\ last.comp = "setuptools"
    /\ last.s.skip /\ ~last.s.dry_run /\ last.fault = NoFault
    /\ last.err = NoErr
    /\ InstallTargets[1] \in DOMAIN last.pre_fs
    /\ InstallTargets[2] \notin DOMAIN last.pre_fs
    /\ fs[InstallTargets[1]] = last.pre_fs[InstallTargets[1]]
    /\ fs[InstallTargets[1]] # Rendered("setup.py", last.cfg)
    /\ fs[InstallTargets[2]] = Rendered("MANIFEST.in", last.cfg)

\* The files that existed before the last call and differ after it.
ChangedFiles == {p \in DOMAIN last.pre_fs : FileState(fs, p) # last.pre_fs[p]}

\* C23: a file that existed before a call differs after it only if the
\* session has overwrite=true and skip=false.
C23_ExistingFilesGated ==
    ChangedFiles # {} => (last.s.overwrite /\ ~last.s.skip)

\* Whether the last call reaches __configure_makefile by its configuration.
Reconfigures ==
    \/ last.op = "create"
    \/ last.op = "manage" /\ last.cfg.add_sonar

\* C23, as the code has it: the writes of __render and of the two root
\* files of cookiecutter are gated by the conflict check, the rewriting of
\* the Makefile by create and manage is not. Without overwrite=true and
\* skip=false, the only file that existed before a call and differs after
\* it is the Makefile of the project directory, after a create call or a
\* manage call with add_sonar, and it differs in DOCKERSONAR only; and no
\* call removes a file.
C23_OnlyReconfigurationIsUngated ==
    /\ DOMAIN last.pre_fs \subseteq DOMAIN fs
    /\ ~(last.s.overwrite /\ ~last.s.skip) =>
           \A p \in ChangedFiles :
               /\ p = MakefilePath
               /\ Reconfigures
               /\ \E v \in {"True", "False"} :
                      /\ fs[p] = [last.pre_fs[p] EXCEPT !.sonar = v]
                      /\ last.op = "manage" => v = "True"
                      /\ last.op = "create" => (v = "True" <=> ~last.cfg.no_sonar)

C23_Witness ==
    /\ last.op = "manage" /\ last.err = NoErr
    /\ StrictFlags(last.s) /\ ~last.s.dry_run
    /\ ChangedFiles = {MakefilePath}
    /\ last.pre_fs[MakefilePath].sonar = "template"
    /\ last.pre_fs[MakefilePath].name = "Demo"
    /\ fs[MakefilePath].sonar = "True"

\* C24: __mkdir raises nothing and touches no file. When the directory is
\* absent and dry_run is false it creates it under the project directory
\* (and nothing but it and missing parents); when the directory exists, or
\* dry_run is true, directories are as before; and a second call with the
\* same name changes nothing.
C24_MkdirIdempotent ==
    last.op = "mkdir" =>
        LET dp    == Join(last.pre_pd, last.target)
            again == Mkdir(StartRun(fs, dirs, session.projectdir), last.s, last.target)
        IN  /\ last.err = NoErr
            /\ fs = last.pre_fs
            /\ session.projectdir = last.pre_pd
            /\ (dp \notin last.pre_dirs /\ ~last.s.dry_run) =>
                   /\ dp \in dirs
                   /\ last.pre_dirs \subseteq dirs
                   /\ \A d \in dirs \ last.pre_dirs : d = dp \/ IsUnder(dp, d)
            /\ dp \in last.pre_dirs => dirs = last.pre_dirs
            /\ last.s.dry_run => dirs = last.pre_dirs
            /\ again.err = NoErr /\ again.dirs = dirs /\ again.fs = fs

C24_Witness ==
    /\ last.op = "mkdir" /\ ~last.s.dry_run
    /\ Join(last.pre_pd, last.target) \notin last.pre_dirs
    /\ dirs = last.pre_dirs \cup {Join(last.pre_pd, last.target)}
    /\ DOMAIN fs # {}

\* C25: a cookiecutter call with overwrite=false and skip=false that finds
\* cookiecutter.json in the project directory fails with FileExistsError at
\* that file and before anything is created: README.md and every other
\* file are as before the call, no directory was made, no component target
\* was reached, and the project directory of the session is unchanged.
C25_ExistingDescriptorFailsFirst ==
    (/\ last.op = "cookiecutter" /\ StrictFlags(last.s)
     /\ ExistedBefore(CookiecutterJsonPath))
    => /\ last.err = "FileExistsError"
       /\ Len(last.log) = 1
       /\ last.log[1].path = CookiecutterJsonPath
       /\ last.log[1].outcome = "TargetExists"
       /\ fs = last.pre_fs
       /\ CookiecutterReadmePath \in DOMAIN fs <=> CookiecutterReadmePath \in DOMAIN last.pre_fs
       /\ dirs = last.pre_dirs
       /\ session.projectdir = last.pre_pd

C25_Witness ==
    /\ last.op = "cookiecutter" /\ StrictFlags(last.s) /\ ~last.s.dry_run
    /\ CookiecutterJsonPath \in DOMAIN last.pre_fs
    /\ last.err = "FileExistsError"
    /\ CookiecutterReadmePath \notin DOMAIN fs
    /\ CookiecutterSubdir \notin dirs
    /\ DOMAIN fs = {CookiecutterJsonPath}
    /\ session.projectdir = ProjectDir

====
